---- MODULE Spec2Model ----
(***************************************************************************)
(* Model of UWebSocketManager (src/unnamed/part_002): the upgrade          *)
(* handshake, the socket table, the room registry, emitEvent /             *)
(* broadcastToRoom and the Redis relay, for one or two server instances    *)
(* that share the "uwebsocket:events" channel.                             *)
(*                                                                         *)
(* A request r that is upgraded becomes the connection with socket id r    *)
(* (randomUUID() never repeats, so every id is used once).  Every callback *)
(* of the event loop (upgrade, the resumption after findByID, open,        *)
(* message, close, a Redis message, an emitEvent call up to its first      *)
(* await, and each resumption of it) is one action.                        *)
(*                                                                         *)
(* Room names are modelled as pairs <<prefix, rest>>: the string           *)
(* "collection:posts" is <<"collection", "posts">>, and                    *)
(* room.startsWith("project:") is room[1] = "project".                     *)
(*                                                                         *)
(* The fields "cause" of a delivered message and of an envelope, and the   *)
(* counter "echoed", are history information: they record which emitEvent  *)
(* call or which close produced the message.  The program does not read    *)
(* them.                                                                   *)
(***************************************************************************)
EXTENDS Integers, Sequences, FiniteSets, TLC

\* ------------------------------------------------------------------ bounds
MaxReq == 2
MaxEmit == 1
MaxPub == 3
MaxFifoEmit == 2
MaxInbox == 2

Reqs == 1..MaxReq
EmitIds == 1..MaxEmit
FifoEmitIds == 1..MaxFifoEmit
Insts == {"A", "B"}
Users == {"u1", "u2"}
Collections == {"posts"}
Events == {[type |-> "update", collection |-> "posts", id |-> 7]}
CustomRooms == {<<"project", "p1">>, <<"actor", "a1">>, <<"room", "alpha">>}

CollectionRoom(coll) == <<"collection", coll>>
Rooms == {CollectionRoom(c) : c \in Collections} \cup CustomRooms
StartsWith(room, prefix) == room[1] = prefix

Range(s) == {s[k] : k \in 1..Len(s)}

VARIABLES
  options,    \* this.options: authorize, shouldEmit, transformEvent, redis, includeCollections
  pubClient,  \* per instance: TRUE when setupRedisAdapter has connected pubClient/subClient
  processEnv, \* process.env: REDIS_URL is TRUE when the variable is set
  app,        \* per instance: "null" before createApp, "listening" after listen resolved
  brokerUp,   \* FALSE while a publish to the broker is rejected
  customHandlers, \* per instance: this.customHandlers, label -> what the handler does
  last,       \* history: the inbound frame handled last, what became of it, and
              \* whether a frame was ignored before it
  lastOp,     \* history: the document operation the host did last, and the hook's calls
  closeLog,   \* history, per connection: the steps of its close task, in order
  query,      \* per request: the token extractTokenFromQuery found, "unread" before the upgrade event
  hs,         \* per request: position of the upgrade handshake / lifecycle of the socket
  site,       \* per request: the instance that received it
  aborted,    \* per request: the `aborted` flag of the upgrade closure
  writes,     \* per request: the transport writes made on `res`, in order
  user,       \* per connection: userData.user.id
  userRooms,  \* per connection: userData.rooms
  sockets,    \* per instance: keys of this.sockets
  rooms,      \* per instance: this.rooms, room name -> member ids in insertion order
  inbox,      \* per connection: the messages ws.send transmitted, in order
  emits,      \* per emitEvent call: its position and local variables
  chan,       \* per instance: messages of "uwebsocket:events" not yet handled by subClient
  published,  \* number of envelopes published to the channel
  echoed      \* number of envelopes published while handling an inbound Redis message

vars == <<options, pubClient, processEnv, app, brokerUp, customHandlers, last, lastOp,
         closeLog, query, hs, site, aborted, writes, user, userRooms,
          sockets, rooms, inbox, emits, chan, published, echoed>>

\* what the callbacks of a running server leave alone
setup == <<processEnv, app, brokerUp, customHandlers, last, lastOp, closeLog>>

\* ------------------------------------------------------- room registry
SetAdd(s, c) == IF c \in Range(s) THEN s ELSE Append(s, c)
SetDelete(s, c) == SelectSeq(s, LAMBDA x : x # c)
MapDelete(m, k) == [x \in DOMAIN m \ {k} |-> m[x]]

\* JoinRoom that keeps the members in a list and appends without looking
JoinRoomAppend(rm, c, r) ==
  LET rm1 == IF r \notin DOMAIN rm THEN rm @@ (r :> <<>>) ELSE rm
  IN [rm1 EXCEPT ![r] = Append(@, c)]

\* joinRoom(socketId, roomName) on the rooms map rm of one instance
JoinRoom(rm, c, r) ==
  LET rm1 == IF r \notin DOMAIN rm THEN rm @@ (r :> <<>>) ELSE rm
  IN [rm1 EXCEPT ![r] = SetAdd(@, c)]

\* leaveRoom(socketId, roomName)
LeaveRoom(rm, c, r) ==
  IF r \in DOMAIN rm
  THEN LET s == SetDelete(rm[r], c)
       IN IF Len(s) = 0 THEN MapDelete(rm, r) ELSE [rm EXCEPT ![r] = s]
  ELSE rm

\* getSocketsInRoom(roomName)
GetSocketsInRoom(rm, r) == IF r \in DOMAIN rm THEN rm[r] ELSE <<>>


\* ------------------------------------------------- sends and the relay
\* The part of the state that sendToSocket, broadcastToRoom and
\* publishToRedis change, threaded through the nested calls of one callback.
World ==
  [rooms |-> rooms, inbox |-> inbox, chan |-> chan,
   published |-> published, echoed |-> echoed]

EmitCause(e) == [kind |-> "emit", id |-> e, relayed |-> FALSE]
CastCause(c, r) == [kind |-> "broadcast", id |-> c, relayed |-> FALSE, room |-> r]
CloseCause(c) == [kind |-> "close", id |-> c, relayed |-> FALSE]

Message(eventName, data, cause) == [type |-> eventName, data |-> data, cause |-> cause]

\* sendToSocket(ws, eventName, data): ws.send throws on a closed socket and
\* the catch logs it, so nothing is transmitted then.
SendToSocket(w, c, eventName, data, cause) ==
  IF hs[c] = "open"
  THEN [w EXCEPT !.inbox[c] = Append(@, Message(eventName, data, cause))]
  ELSE w

\* publishToRedis(type, room, eventName, data); Redis hands the message to
\* every subscribed subClient, the publishing instance's own included.
\* inbound is TRUE when the caller is handling an inbound Redis message.
\* A publish the broker rejects is caught and logged.
PublishToRedis(w, i, type, room, eventName, data, cause, inbound) ==
  IF ~pubClient[i] \/ ~brokerUp
  THEN w
  ELSE LET env == [type |-> type, room |-> room, eventName |-> eventName,
                   event |-> data, message |-> data, cause |-> cause]
       IN [w EXCEPT !.chan = [j \in Insts |->
                                IF pubClient[j] THEN Append(w.chan[j], env) ELSE w.chan[j]],
                    !.published = @ + 1,
                    !.echoed = IF inbound THEN @ + 1 ELSE @]

\* The broker stops answering: every publish is rejected until it recovers.
BrokerDown ==
  /\ brokerUp
  /\ brokerUp' = FALSE
  /\ UNCHANGED <<options, closeLog, pubClient, processEnv, app, customHandlers, last, lastOp, query, hs,
                 site, aborted, writes, user, userRooms, sockets, rooms, inbox, emits, chan,
                 published, echoed>>

BrokerUp ==
  /\ ~brokerUp
  /\ brokerUp' = TRUE
  /\ UNCHANGED <<options, closeLog, pubClient, processEnv, app, customHandlers, last, lastOp, query, hs,
                 site, aborted, writes, user, userRooms, sockets, rooms, inbox, emits, chan,
                 published, echoed>>

RECURSIVE SendEach(_, _, _, _, _)
SendEach(w, ids, eventName, data, cause) ==
  IF ids = <<>> THEN w
  ELSE SendEach(SendToSocket(w, Head(ids), eventName, data, cause),
                Tail(ids), eventName, data, cause)

\* broadcastToRoom that publishes first and gives up when there is no relay
\* client or the publish is rejected
BroadcastToRoomPublishFirst(w, i, roomName, data, eventName, exclude, cause, inbound) ==
  LET socketIds == GetSocketsInRoom(w.rooms[i], roomName)
      targets == SelectSeq(socketIds, LAMBDA c : c \notin exclude /\ c \in sockets[i])
      w1 == PublishToRedis(w, i, "room-broadcast", roomName, eventName, data, cause, inbound)
  IN IF ~pubClient[i] \/ ~brokerUp THEN w
     ELSE SendEach(w1, targets, eventName, data, cause)

\* broadcastToRoom(roomName, data, eventName, excludeSocketId?); exclude is
\* {} when no excludeSocketId is given.
BroadcastToRoom(w, i, roomName, data, eventName, exclude, cause, inbound) ==
  LET socketIds == GetSocketsInRoom(w.rooms[i], roomName)
      targets == SelectSeq(socketIds, LAMBDA c : c \notin exclude /\ c \in sockets[i])
      w1 == SendEach(w, targets, eventName, data, cause)
  IN PublishToRedis(w1, i, "room-broadcast", roomName, eventName, data, cause, inbound)

\* ------------------------------------------------------------ start-up
\* initUWebSocket(port) of the instance's process: createApp() and
\* listen(port); after it the app accepts upgrade requests.
InitUWebSocket(i) ==
  /\ app' = [app EXCEPT ![i] = "listening"]
  /\ UNCHANGED <<options, closeLog, pubClient, processEnv, brokerUp, customHandlers, last, lastOp, query,
                 hs, site, aborted, writes, user, userRooms, sockets, rooms, inbox, emits,
                 chan, published, echoed>>

\* init() called by host code: with redis in the options it runs
\* setupRedisAdapter, which returns at once when REDIS_URL is not set and
\* otherwise connects pubClient and subClient and subscribes, once the
\* broker answers.
ManagerInit(i) ==
  /\ options.redis /\ processEnv.REDIS_URL
  /\ brokerUp
  /\ pubClient' = [pubClient EXCEPT ![i] = TRUE]
  /\ UNCHANGED <<options, closeLog, processEnv, app, brokerUp, customHandlers, last, lastOp, query,
                 hs, site, aborted, writes, user, userRooms, sockets, rooms, inbox, emits,
                 chan, published, echoed>>

\* ------------------------------------------------------------- gateway
Reject(reason) == [status |-> "401 Unauthorized", body |-> reason]
Upgraded == [status |-> "101 Switching Protocols", body |-> "upgrade"]

NextReq(r) == hs[r] = "new" /\ \A q \in Reqs : q < r => hs[q] # "new"

\* Upgrade without the `if (!token)` rejection: the missing token goes to
\* jwt.verify, which throws
UpgradeNoTokenCheck(r, i, token) ==
  /\ NextReq(r)
  /\ app[i] = "listening"
  /\ site' = [site EXCEPT ![r] = i]
  /\ query' = [query EXCEPT ![r] = token]
  /\ IF token \in {"none", "bad"}
     THEN /\ writes' = [writes EXCEPT ![r] = Append(@, Reject("Invalid authentication token"))]
          /\ hs' = [hs EXCEPT ![r] = "rejected"]
     ELSE /\ writes' = writes
          /\ hs' = [hs EXCEPT ![r] = "pending"]
  /\ UNCHANGED <<options, pubClient, setup, aborted, user, userRooms, sockets, rooms,
                 inbox, emits, chan, published, echoed>>

\* upgrade handler up to the first await; token is "none" (no token in the
\* query), "bad" (jwt.verify throws) or "good".
Upgrade(r, i, token) ==
  /\ NextReq(r)
  /\ app[i] = "listening"
  /\ site' = [site EXCEPT ![r] = i]
  /\ query' = [query EXCEPT ![r] = token]
  /\ IF token = "none"
     THEN /\ writes' = [writes EXCEPT ![r] = Append(@, Reject("Authentication token required"))]
          /\ hs' = [hs EXCEPT ![r] = "rejected"]
     ELSE IF token = "bad"
     THEN /\ writes' = [writes EXCEPT ![r] = Append(@, Reject("Invalid authentication token"))]
          /\ hs' = [hs EXCEPT ![r] = "rejected"]
     ELSE /\ writes' = writes
          /\ hs' = [hs EXCEPT ![r] = "pending"]
  /\ UNCHANGED <<options, pubClient, setup, aborted, user, userRooms, sockets, rooms,
                 inbox, emits, chan, published, echoed>>

\* res.onAborted callback
Abort(r) ==
  /\ hs[r] = "pending"
  /\ ~aborted[r]
  /\ aborted' = [aborted EXCEPT ![r] = TRUE]
  /\ UNCHANGED <<options, pubClient, setup, query, hs, site, writes, user, userRooms, sockets,
                 rooms, inbox, emits, chan, published, echoed>>

\* ResumeOutcome without the `if (aborted) return` of the catch block
ResumeOutcomeNoAbortCheckInCatch(isAborted, doc) ==
  IF doc = "throw"
  THEN [hs |-> "rejected", write |-> <<Reject("Invalid authentication token")>>]
  ELSE IF isAborted THEN [hs |-> "stopped", write |-> <<>>]
  ELSE IF doc = "null"
  THEN [hs |-> "rejected", write |-> <<Reject("User not found")>>]
  ELSE [hs |-> "upgraded", write |-> <<Upgraded>>]

\* ResumeOutcome without the `if (!userDoc)` rejection: the upgrade is made
\* with whatever the lookup returned
ResumeOutcomeUpgradeWithoutDoc(isAborted, doc) ==
  IF doc = "throw"
  THEN IF isAborted THEN [hs |-> "stopped", write |-> <<>>]
       ELSE [hs |-> "rejected", write |-> <<Reject("Invalid authentication token")>>]
  ELSE IF isAborted THEN [hs |-> "stopped", write |-> <<>>]
  ELSE [hs |-> "upgraded", write |-> <<Upgraded>>]

\* ResumeOutcome in which the `if (!userDoc)` block does not return: after
\* the rejection the closure goes on to the upgrade
ResumeOutcomeNoReturnAfterReject(isAborted, doc) ==
  IF doc = "throw"
  THEN IF isAborted THEN [hs |-> "stopped", write |-> <<>>]
       ELSE [hs |-> "rejected", write |-> <<Reject("Invalid authentication token")>>]
  ELSE IF isAborted THEN [hs |-> "stopped", write |-> <<>>]
  ELSE IF doc = "null"
  THEN [hs |-> "upgraded", write |-> <<Reject("User not found"), Upgraded>>]
  ELSE [hs |-> "upgraded", write |-> <<Upgraded>>]

\* What the upgrade closure does when payload.findByID settles: doc is
\* "throw" (the lookup rejected), "null" (no document) or a user id.
\* Gives the new handshake position and the write made, if any.
ResumeOutcome(isAborted, doc) ==
  IF doc = "throw"
  THEN IF isAborted THEN [hs |-> "stopped", write |-> <<>>]
       ELSE [hs |-> "rejected", write |-> <<Reject("Invalid authentication token")>>]
  ELSE IF isAborted THEN [hs |-> "stopped", write |-> <<>>]
  ELSE IF doc = "null"
  THEN [hs |-> "rejected", write |-> <<Reject("User not found")>>]
  ELSE [hs |-> "upgraded", write |-> <<Upgraded>>]

Resume(r, doc) ==
  /\ hs[r] = "pending"
  /\ LET out == ResumeOutcome(aborted[r], doc)
     IN /\ hs' = [hs EXCEPT ![r] = out.hs]
        /\ writes' = [writes EXCEPT ![r] = @ \o out.write]
        /\ user' = [user EXCEPT ![r] = IF out.hs = "upgraded" THEN doc ELSE @]
  /\ UNCHANGED <<options, pubClient, setup, query, site, aborted, userRooms, sockets, rooms,
                 inbox, emits, chan, published, echoed>>

\* open handler
Open(r) ==
  /\ hs[r] = "upgraded"
  /\ hs' = [hs EXCEPT ![r] = "open"]
  /\ sockets' = [sockets EXCEPT ![site[r]] = @ \cup {r}]
  /\ UNCHANGED <<options, pubClient, setup, query, site, aborted, writes, user, userRooms,
                 rooms, inbox, emits, chan, published, echoed>>

\* CloseRooms that broadcasts the leave notification without excluding the
\* closing socket
RECURSIVE CloseRoomsNotifyAll(_, _, _, _)
CloseRoomsNotifyAll(w, i, c, todo) ==
  IF todo = {} THEN w
  ELSE LET room == CHOOSE x \in todo : TRUE
           w1 == IF StartsWith(room, "project")
                 THEN BroadcastToRoom(w, i, room, [userId |-> user[c]],
                                      "project:user-left", {}, CloseCause(c), FALSE)
                 ELSE IF StartsWith(room, "actor")
                 THEN BroadcastToRoom(w, i, room, [userId |-> user[c]],
                                      "actor:user-left", {}, CloseCause(c), FALSE)
                 ELSE w
           w2 == [w1 EXCEPT !.rooms[i] = LeaveRoom(@, c, room)]
       IN CloseRoomsNotifyAll(w2, i, c, todo \ {room})

\* One step of a close task, for closeLog; member tells whether the
\* closing connection is in the room's member set when the step begins.
CloseStep(w, i, c, step, room) ==
  [step |-> step, room |-> room, member |-> c \in Range(GetSocketsInRoom(w.rooms[i], room))]

\* The forEach of the close handler taking the connection out of a room
\* before it notifies the room
RECURSIVE CloseRoomsLeaveFirst(_, _, _, _)
CloseRoomsLeaveFirst(w, i, c, todo) ==
  IF todo = {} THEN w
  ELSE LET room == CHOOSE x \in todo : TRUE
           notifies == StartsWith(room, "project") \/ StartsWith(room, "actor")
           w1 == [w EXCEPT !.rooms[i] = LeaveRoom(@, c, room),
                           !.log = Append(@, CloseStep(w, i, c, "leave", room))]
           w2 == IF StartsWith(room, "project")
                 THEN BroadcastToRoom(w1, i, room, [userId |-> user[c]],
                                      "project:user-left", {c}, CloseCause(c), FALSE)
                 ELSE IF StartsWith(room, "actor")
                 THEN BroadcastToRoom(w1, i, room, [userId |-> user[c]],
                                      "actor:user-left", {c}, CloseCause(c), FALSE)
                 ELSE w1
           w3 == IF notifies
                 THEN [w2 EXCEPT !.log = Append(@, CloseStep(w1, i, c, "notify", room))]
                 ELSE w2
       IN CloseRoomsLeaveFirst(w3, i, c, todo \ {room})

\* the forEach over userData.rooms of the close handler; w carries the log
\* of the task's steps
RECURSIVE CloseRooms(_, _, _, _)
CloseRooms(w, i, c, todo) ==
  IF todo = {} THEN w
  ELSE LET room == CHOOSE x \in todo : TRUE
           notifies == StartsWith(room, "project") \/ StartsWith(room, "actor")
           w1 == IF StartsWith(room, "project")
                 THEN BroadcastToRoom(w, i, room, [userId |-> user[c]],
                                      "project:user-left", {c}, CloseCause(c), FALSE)
                 ELSE IF StartsWith(room, "actor")
                 THEN BroadcastToRoom(w, i, room, [userId |-> user[c]],
                                      "actor:user-left", {c}, CloseCause(c), FALSE)
                 ELSE w
           w2 == IF notifies
                 THEN [w1 EXCEPT !.log = Append(@, CloseStep(w, i, c, "notify", room))]
                 ELSE w1
           w3 == [w2 EXCEPT !.rooms[i] = LeaveRoom(@, c, room),
                            !.log = Append(@, CloseStep(w2, i, c, "leave", room))]
       IN CloseRooms(w3, i, c, todo \ {room})

\* close handler
Close(c) ==
  /\ hs[c] = "open"
  /\ LET w == CloseRooms([rooms |-> rooms, inbox |-> inbox, chan |-> chan,
                          published |-> published, echoed |-> echoed, log |-> <<>>],
                         site[c], c, userRooms[c])
     IN /\ rooms' = w.rooms
        /\ inbox' = w.inbox
        /\ chan' = w.chan
        /\ published' = w.published
        /\ echoed' = w.echoed
        /\ closeLog' = [closeLog EXCEPT ![c] =
                          Append(w.log,
                                 [step |-> "delete", room |-> <<"none", "none">>,
                                  member |-> \E r \in DOMAIN w.rooms[site[c]] :
                                               c \in Range(w.rooms[site[c]][r])])]
  /\ sockets' = [sockets EXCEPT ![site[c]] = @ \ {c}]
  /\ hs' = [hs EXCEPT ![c] = "closed"]
  /\ UNCHANGED <<options, pubClient, processEnv, app, brokerUp, customHandlers, last, lastOp,
                 query, site, aborted, writes, user, userRooms, emits>>


\* ------------------------------------------------------ inbound messages
\* msg.data of a join / leave message: one slug or an array of slugs
Str(x) == [isArray |-> FALSE, v |-> x]
Arr(xs) == [isArray |-> TRUE, v |-> xs]
JoinData ==
  {Str(c) : c \in Collections} \cup {Arr(<<>>)} \cup {Arr(<<c>>) : c \in Collections}
  \cup {Arr(<<c, d>>) : c \in Collections, d \in Collections}

\* Array.isArray(collection) ? collection : [collection]
AsArray(data) == IF data.isArray THEN data.v ELSE <<data.v>>

\* handleJoinCollection(ws, collection): st is [rooms, userRooms] of the
\* instance and of the connection
RECURSIVE HandleJoinCollection(_, _, _)
HandleJoinCollection(st, c, colls) ==
  IF colls = <<>> THEN st
  ELSE LET roomName == CollectionRoom(Head(colls))
       IN HandleJoinCollection(
            [rooms |-> JoinRoom(st.rooms, c, roomName),
             userRooms |-> st.userRooms \cup {roomName}],
            c, Tail(colls))

\* handleUnsubscribe(ws, collection)
RECURSIVE HandleUnsubscribe(_, _, _)
HandleUnsubscribe(st, c, colls) ==
  IF colls = <<>> THEN st
  ELSE LET roomName == CollectionRoom(Head(colls))
       IN HandleUnsubscribe(
            [rooms |-> LeaveRoom(st.rooms, c, roomName),
             userRooms |-> st.userRooms \ {roomName}],
            c, Tail(colls))

\* handleMessage(ws, msg) for the labels the switch resolves itself
HandleMessage(st, c, type, data) ==
  IF type \in {"subscribe", "join-collection"}
  THEN HandleJoinCollection(st, c, AsArray(data))
  ELSE IF type = "unsubscribe"
  THEN HandleUnsubscribe(st, c, AsArray(data))
  ELSE st

\* message handler, for a built-in label
OnMessage(c, type, data) ==
  /\ hs[c] = "open"
  /\ LET st == HandleMessage([rooms |-> rooms[site[c]], userRooms |-> userRooms[c]],
                             c, type, data)
     IN /\ rooms' = [rooms EXCEPT ![site[c]] = st.rooms]
        /\ userRooms' = [userRooms EXCEPT ![c] = st.userRooms]
  /\ UNCHANGED <<options, pubClient, setup, query, hs, site, aborted, writes, user, sockets,
                 inbox, emits, chan, published, echoed>>

\* message handler, for a label with a custom handler registered by the
\* onSocketConnection callback that puts the connection in a custom room
\* the way handleJoinCollection does: manager.joinRoom(id, room) and
\* ws.getUserData().rooms.add(room).
CustomJoin(c, r) ==
  /\ hs[c] = "open"
  /\ r \in CustomRooms
  /\ rooms' = [rooms EXCEPT ![site[c]] = JoinRoom(@, c, r)]
  /\ userRooms' = [userRooms EXCEPT ![c] = @ \cup {r}]
  /\ UNCHANGED <<options, pubClient, setup, query, hs, site, aborted, writes, user, sockets,
                 inbox, emits, chan, published, echoed>>

\* manager.joinRoom(socketId, roomName) called by host code for a registered
\* connection
ApiJoinRoom(c, r) ==
  /\ hs[c] = "open"
  /\ rooms' = [rooms EXCEPT ![site[c]] = JoinRoom(@, c, r)]
  /\ UNCHANGED <<options, pubClient, setup, query, hs, site, aborted, writes, user, userRooms,
                 sockets, inbox, emits, chan, published, echoed>>

\* manager.leaveRoom(socketId, roomName) called by host code
ApiLeaveRoom(c, r) ==
  /\ hs[c] = "open"
  /\ rooms' = [rooms EXCEPT ![site[c]] = LeaveRoom(@, c, r)]
  /\ UNCHANGED <<options, pubClient, setup, query, hs, site, aborted, writes, user, userRooms,
                 sockets, inbox, emits, chan, published, echoed>>

\* manager.broadcastToRoom(roomName, data, "chat", excludeSocketId) called by
\* host code on the instance of the excluded connection c, while no
\* connection has been sent MaxInbox messages and fewer than MaxPub envelopes
\* were published
ChatData == [text |-> "hello"]

ApiBroadcastToRoom(c, r) ==
  /\ hs[c] = "open"
  /\ \A d \in Reqs : Len(inbox[d]) < MaxInbox
  /\ published < MaxPub
  /\ LET w == BroadcastToRoom(World, site[c], r, ChatData, "chat", {c},
                              CastCause(c, r), FALSE)
     IN /\ rooms' = w.rooms
        /\ inbox' = w.inbox
        /\ chan' = w.chan
        /\ published' = w.published
        /\ echoed' = w.echoed
  /\ UNCHANGED <<options, pubClient, setup, query, hs, site, aborted, writes, user, userRooms,
                 sockets, emits>>

\* ------------------------------------------------ custom handler registry
MapSet(m, k, v) == [x \in DOMAIN m \cup {k} |-> IF x = k THEN v ELSE m[x]]

\* What a handler registered by host code does when it is called with the
\* connection and msg.data: "reply" sends the data back with sendToSocket,
\* "throw" throws before it has done anything.
Behaviours == {"reply", "throw"}

\* on(eventName, handler)
On(i, eventName, handler) ==
  /\ customHandlers' = [customHandlers EXCEPT ![i] = MapSet(@, eventName, handler)]
  /\ UNCHANGED <<options, closeLog, pubClient, processEnv, app, brokerUp, last, lastOp, query, hs, site,
                 aborted, writes, user, userRooms, sockets, rooms, inbox, emits, chan,
                 published, echoed>>

\* msg.data of a message that has no "data" key; `collection:${undefined}`
\* is "collection:undefined"
Undefined == Str("undefined")

\* The text of a frame: "garbage" is no JSON, "null" is the JSON null,
\* "untyped" is a JSON object without "type", "typed" is
\* {type: ..., data: ...}, with data Undefined when the key is missing.
NoFrame == [kind |-> "none", type |-> "undefined", data |-> Undefined]
Garbage == [NoFrame EXCEPT !.kind = "garbage"]
Null == [NoFrame EXCEPT !.kind = "null"]
Untyped == [NoFrame EXCEPT !.kind = "untyped"]
Typed(type, data) == [kind |-> "typed", type |-> type, data |-> data]

IgnoredOutcomes == {"parse-error", "unknown", "custom-failed"}

HandlerCause(c) == [kind |-> "handler", id |-> c, relayed |-> FALSE]

\* The labels the switch of handleMessage names
Reserved == {"subscribe", "join-collection", "unsubscribe"}

\* The switch of handleMessage looking at the registry first
DispatchCustomFirst(handlers, type) ==
  IF type \in DOMAIN handlers THEN "custom"
  ELSE IF type \in Reserved THEN "built-in"
  ELSE "unknown"

\* The switch of handleMessage: which code resolves a label
Dispatch(handlers, type) ==
  IF type \in Reserved THEN "built-in"
  ELSE IF type \in DOMAIN handlers THEN "custom"
  ELSE "unknown"

\* try { await customHandler(ws, data) } catch { log }; st is [rooms,
\* userRooms, sent, outcome], sent being what is sent to the connection
RunHandler(st, c, handler, data) ==
  IF handler = "reply"
  THEN [st EXCEPT !.sent = Append(@, Message("reply", data, HandlerCause(c))),
                  !.outcome = "custom"]
  ELSE [st EXCEPT !.outcome = "custom-failed"]

\* The message callback that answers a label nobody handles with an error
\* message
HandleFrameUnknownReplies(st, handlers, c, frame) ==
  IF frame.kind \in {"garbage", "null"}
  THEN [st EXCEPT !.outcome = "parse-error"]
  ELSE LET resolved == Dispatch(handlers, frame.type)
       IN IF resolved = "built-in"
          THEN LET reg == HandleMessage([rooms |-> st.rooms, userRooms |-> st.userRooms],
                                        c, frame.type, frame.data)
               IN [st EXCEPT !.rooms = reg.rooms, !.userRooms = reg.userRooms,
                             !.outcome = "built-in"]
          ELSE IF resolved = "custom"
          THEN RunHandler(st, c, handlers[frame.type], frame.data)
          ELSE [st EXCEPT !.sent = Append(@, Message("error", frame.data, HandlerCause(c))),
                          !.outcome = "unknown"]

\* The message callback: JSON.parse and handleMessage inside try / catch.
\* JSON.parse throws on garbage, and destructuring null throws; the type
\* of an object without "type" is undefined, which no case matches.
HandleFrame(st, handlers, c, frame) ==
  IF frame.kind \in {"garbage", "null"}
  THEN [st EXCEPT !.outcome = "parse-error"]
  ELSE LET resolved == Dispatch(handlers, frame.type)
       IN IF resolved = "built-in"
          THEN LET reg == HandleMessage([rooms |-> st.rooms, userRooms |-> st.userRooms],
                                        c, frame.type, frame.data)
               IN [st EXCEPT !.rooms = reg.rooms, !.userRooms = reg.userRooms,
                             !.outcome = "built-in"]
          ELSE IF resolved = "custom"
          THEN RunHandler(st, c, handlers[frame.type], frame.data)
          ELSE [st EXCEPT !.outcome = "unknown"]

\* The message callback for one frame of connection c, while c has been
\* sent fewer than MaxInbox messages
OnFrame(c, frame) ==
  /\ hs[c] = "open"
  /\ Len(inbox[c]) < MaxInbox
  /\ LET st == HandleFrame([rooms |-> rooms[site[c]], userRooms |-> userRooms[c],
                            sent |-> <<>>, outcome |-> "none"],
                           customHandlers[site[c]], c, frame)
     IN /\ rooms' = [rooms EXCEPT ![site[c]] = st.rooms]
        /\ userRooms' = [userRooms EXCEPT ![c] = st.userRooms]
        /\ inbox' = [inbox EXCEPT ![c] = @ \o st.sent]
        /\ last' = [conn |-> c, frame |-> frame, outcome |-> st.outcome,
                    after |-> last.after \/ last.outcome \in IgnoredOutcomes]
  /\ UNCHANGED <<options, closeLog, pubClient, processEnv, app, brokerUp, customHandlers, lastOp, query,
                 hs, site, aborted, writes, user, sockets, emits, chan, published, echoed>>

\* ------------------------------------------------------------ dispatcher
AuthorizeConfigs ==
  {[defined |-> FALSE, handlers |-> {}]}
  \cup {[defined |-> TRUE, handlers |-> h] : h \in SUBSET Collections}

\* options.shouldEmit: undefined, or a predicate that returns true for the
\* events of `pass`
NoFilter == [defined |-> FALSE, pass |-> {}]
FilterConfigs == {NoFilter} \cup {[defined |-> TRUE, pass |-> p] : p \in SUBSET Events}

\* options.transformEvent: undefined, or a function that gives an event of
\* the same type with the collection and the id it sets
NoTransform == [defined |-> FALSE, collection |-> "none", id |-> 0]
TransformCollections == {"posts", "pages"}
TransformConfigs ==
  {NoTransform} \cup {[defined |-> TRUE, collection |-> c, id |-> 8] : c \in TransformCollections}

\* transformEvent ? transformEvent(event) : event
TransformEvent(t, ev) ==
  IF t.defined THEN [type |-> ev.type, collection |-> t.collection, id |-> t.id] ELSE ev

NoEvent == [type |-> "none", collection |-> "none", id |-> 0]

IdleEmit ==
  [pc |-> "idle", inst |-> "none", event |-> NoEvent, finalEvent |-> NoEvent,
   room |-> <<"none", "none">>, ids |-> <<>>, idx |-> 0, evals |-> <<>>, reg |-> {}]

NextEmit(e) ==
  emits[e].pc = "idle" /\ \A f \in DOMAIN emits : f < e => emits[f].pc # "idle"

\* the forEach over Array.from(this.sockets.keys()) of emitEvent
RECURSIVE GlobalFeed(_, _, _, _)
GlobalFeed(w, todo, data, cause) ==
  IF todo = {} THEN w
  ELSE LET c == CHOOSE x \in todo : TRUE
       IN GlobalFeed(SendToSocket(w, c, "payload:event:all", data, cause),
                     todo \ {c}, data, cause)

\* emitEvent from the global feed to its end: st is [w, em]
FinishEmit(w, em, e) ==
  LET w1 == GlobalFeed(w, sockets[em.inst], em.finalEvent, EmitCause(e))
      w2 == PublishToRedis(w1, em.inst, "event", em.room, "payload:event",
                           em.finalEvent, EmitCause(e), FALSE)
  IN [w |-> w2, em |-> [em EXCEPT !.pc = "done", !.reg = sockets[em.inst]]]

\* the for loop of emitEvent from member number idx up to the next await:
\* this.sockets.get(socketId) is undefined for an id that is not in the
\* table, and this.getUserData(undefined) throws, which rejects emitEvent.
\* userData.user is set for every upgraded socket.
AdvanceEmit(w, em, e, idx) ==
  IF idx > Len(em.ids)
  THEN FinishEmit(w, em, e)
  ELSE IF em.ids[idx] \notin sockets[em.inst]
  THEN [w |-> w, em |-> [em EXCEPT !.pc = "failed", !.idx = idx, !.reg = sockets[em.inst]]]
  ELSE [w |-> w, em |-> [em EXCEPT !.pc = "await", !.idx = idx]]

\* StartEmit that treats a collection without a predicate like a
\* configuration without authorization: it broadcasts to the room
StartEmitAllowByDefault(w, e, i, ev) ==
  LET finalEvent == TransformEvent(options.transformEvent, ev)
      room == CollectionRoom(ev.collection)
      em == [IdleEmit EXCEPT !.inst = i, !.event = ev, !.finalEvent = finalEvent,
                             !.room = room]
  IN IF options.shouldEmit.defined /\ ev \notin options.shouldEmit.pass
     THEN [w |-> w, em |-> [IdleEmit EXCEPT !.pc = "filtered", !.inst = i, !.event = ev]]
     ELSE IF ~options.authorize.defined \/ ev.collection \notin options.authorize.handlers
     THEN FinishEmit(BroadcastToRoom(w, i, room, finalEvent, "payload:event", {},
                                     EmitCause(e), FALSE),
                     [em EXCEPT !.ids = GetSocketsInRoom(w.rooms[i], room)], e)
     ELSE AdvanceEmit(w, [em EXCEPT !.ids = GetSocketsInRoom(w.rooms[i], room)], e, 1)

\* StartEmit without the shouldEmit test
StartEmitNoFilter(w, e, i, ev) ==
  LET finalEvent == TransformEvent(options.transformEvent, ev)
      room == CollectionRoom(ev.collection)
      em == [IdleEmit EXCEPT !.inst = i, !.event = ev, !.finalEvent = finalEvent,
                             !.room = room]
  IN IF ~options.authorize.defined
     THEN FinishEmit(BroadcastToRoom(w, i, room, finalEvent, "payload:event", {},
                                     EmitCause(e), FALSE),
                     [em EXCEPT !.ids = GetSocketsInRoom(w.rooms[i], room)], e)
     ELSE IF ev.collection \notin options.authorize.handlers
     THEN FinishEmit(w, em, e)
     ELSE AdvanceEmit(w, [em EXCEPT !.ids = GetSocketsInRoom(w.rooms[i], room)], e, 1)

\* emitEvent(event) up to its first await, or to its end when it has none;
\* an event the filter refuses ends the call at once (pc "filtered").
StartEmit(w, e, i, ev) ==
  LET finalEvent == TransformEvent(options.transformEvent, ev)
      room == CollectionRoom(ev.collection)
      em == [IdleEmit EXCEPT !.inst = i, !.event = ev, !.finalEvent = finalEvent,
                             !.room = room]
  IN IF options.shouldEmit.defined /\ ev \notin options.shouldEmit.pass
     THEN [w |-> w, em |-> [IdleEmit EXCEPT !.pc = "filtered", !.inst = i, !.event = ev]]
     ELSE IF ~options.authorize.defined
     THEN FinishEmit(BroadcastToRoom(w, i, room, finalEvent, "payload:event", {},
                                     EmitCause(e), FALSE),
                     [em EXCEPT !.ids = GetSocketsInRoom(w.rooms[i], room)], e)
     ELSE IF ev.collection \notin options.authorize.handlers
     THEN FinishEmit(w, em, e)
     ELSE AdvanceEmit(w, [em EXCEPT !.ids = GetSocketsInRoom(w.rooms[i], room)], e, 1)

\* ResumeEmit in which a send that throws is not caught by sendToSocket: it
\* rejects emitEvent
ResumeEmitSendThrows(w, em, e, isAuthorized) ==
  LET c == em.ids[em.idx]
      em1 == [em EXCEPT !.evals = Append(@, <<c, user[c], isAuthorized>>)]
      w1 == IF isAuthorized
            THEN SendToSocket(w, c, "payload:event", em.finalEvent, EmitCause(e))
            ELSE w
  IN IF isAuthorized /\ hs[c] # "open"
     THEN [w |-> w, em |-> [em1 EXCEPT !.pc = "failed", !.reg = sockets[em.inst]]]
     ELSE AdvanceEmit(w1, em1, e, em.idx + 1)

\* emitEvent resumed with the result of `await collectionHandler(...)`
ResumeEmit(w, em, e, isAuthorized) ==
  LET c == em.ids[em.idx]
      em1 == [em EXCEPT !.evals = Append(@, <<c, user[c], isAuthorized>>)]
      w1 == IF isAuthorized
            THEN SendToSocket(w, c, "payload:event", em.finalEvent, EmitCause(e))
            ELSE w
  IN AdvanceEmit(w1, em1, e, em.idx + 1)

Commit(st, e) ==
  /\ emits' = [emits EXCEPT ![e] = st.em]
  /\ rooms' = st.w.rooms
  /\ inbox' = st.w.inbox
  /\ chan' = st.w.chan
  /\ published' = st.w.published
  /\ echoed' = st.w.echoed

EmitEvent(e, i, ev) ==
  /\ NextEmit(e)
  /\ Commit(StartEmit(World, e, i, ev), e)
  /\ UNCHANGED <<options, pubClient, setup, query, hs, site, aborted, writes, user, userRooms, sockets>>

EmitResume(e, isAuthorized) ==
  /\ emits[e].pc = "await"
  /\ Commit(ResumeEmit(World, emits[e], e, isAuthorized), e)
  /\ UNCHANGED <<options, pubClient, setup, query, hs, site, aborted, writes, user, userRooms, sockets>>

\* ------------------------------------------------------------ host hooks
HookCollections == {"posts", "pages"}
Operations == {"create", "update", "delete"}
DocId == 7

\* shouldEmitForCollection(collectionSlug)
ShouldEmitForCollection(collectionSlug) ==
  IF options.includeCollections # {}
  THEN collectionSlug \in options.includeCollections
  ELSE FALSE

\* createEventPayload(type, collection, args)
CreateEventPayload(type, collection, id) ==
  [type |-> type, collection |-> collection, id |-> id]

\* The hooks calling emitEvent after every operation on a collection with
\* hooks
HookEmitsAlways(collectionSlug, operation) ==
  ShouldEmitForCollection(collectionSlug)

\* Whether the hooks the plugin installed call emitEvent after the
\* operation: afterChange runs after a create and after an update and
\* returns unless args.operation is "update"; afterDelete runs after a
\* delete; a collection that is not included gets no hook.
HookEmits(collectionSlug, operation) ==
  /\ ShouldEmitForCollection(collectionSlug)
  /\ operation \in {"update", "delete"}

\* The host has created, updated or deleted a document of the collection in
\* the process of instance i, and runs the collection's hooks: emitEvent up
\* to its first await, or nothing.
DocOperation(i, collectionSlug, operation) ==
  /\ IF HookEmits(collectionSlug, operation)
     THEN \E e \in EmitIds :
            /\ NextEmit(e)
            /\ Commit(StartEmit(World, e, i,
                                CreateEventPayload(operation, collectionSlug, DocId)), e)
            /\ lastOp' = [op |-> operation, collection |-> collectionSlug, calls |-> 1]
     ELSE /\ lastOp' = [op |-> operation, collection |-> collectionSlug, calls |-> 0]
          /\ UNCHANGED <<rooms, inbox, emits, chan, published, echoed>>
  /\ UNCHANGED <<options, closeLog, pubClient, processEnv, app, brokerUp, customHandlers, last, query, hs,
                 site, aborted, writes, user, userRooms, sockets>>

\* ------------------------------------------------------------ relay inbound
\* handleRedisMessage(channel, message) for the oldest unhandled message
RedisMessage(w, i, env) ==
  LET cause == [env.cause EXCEPT !.relayed = TRUE]
  IN IF env.type = "event"
     THEN BroadcastToRoom(w, i, env.room, env.event, env.eventName, {}, cause, TRUE)
     ELSE IF env.type = "room-broadcast"
     THEN BroadcastToRoom(w, i, env.room, env.message, env.eventName, {}, cause, TRUE)
     ELSE w

HandleRedisMessage(i) ==
  /\ chan[i] # <<>>
  /\ published < MaxPub
  /\ LET w == RedisMessage([World EXCEPT !.chan[i] = Tail(@)], i, Head(chan[i]))
     IN /\ rooms' = w.rooms
        /\ inbox' = w.inbox
        /\ chan' = w.chan
        /\ published' = w.published
        /\ echoed' = w.echoed
  /\ UNCHANGED <<options, pubClient, setup, query, hs, site, aborted, writes, user, userRooms,
                 sockets, emits>>

\* ------------------------------------------------------------ specification
NoLast == [conn |-> 0, frame |-> NoFrame, outcome |-> "none", after |-> FALSE]
NoOp == [op |-> "none", collection |-> "none", calls |-> 0]

\* The managers of the instances.  With started = FALSE this is the state
\* after the constructors; with started = TRUE every instance has run
\* init() and initUWebSocket(): its app listens, and pubClient / subClient
\* are connected if redis is configured and REDIS_URL is set.
InitManagers(optionSet, urls, started, emitIds) ==
  /\ options \in optionSet
  /\ processEnv \in [REDIS_URL : urls]
  /\ app = [i \in Insts |-> IF started THEN "listening" ELSE "null"]
  /\ pubClient = [i \in Insts |-> started /\ options.redis /\ processEnv.REDIS_URL]
  /\ brokerUp = TRUE
  /\ customHandlers = [i \in Insts |-> <<>>]
  /\ last = NoLast
  /\ lastOp = NoOp
  /\ closeLog = [r \in Reqs |-> <<>>]
  /\ query = [r \in Reqs |-> "unread"]
  /\ hs = [r \in Reqs |-> "new"]
  /\ site = [r \in Reqs |-> "none"]
  /\ aborted = [r \in Reqs |-> FALSE]
  /\ writes = [r \in Reqs |-> <<>>]
  /\ user = [r \in Reqs |-> "none"]
  /\ userRooms = [r \in Reqs |-> {}]
  /\ sockets = [i \in Insts |-> {}]
  /\ rooms = [i \in Insts |-> <<>>]
  /\ inbox = [r \in Reqs |-> <<>>]
  /\ emits = [e \in emitIds |-> IdleEmit]
  /\ chan = [i \in Insts |-> <<>>]
  /\ published = 0
  /\ echoed = 0

\* Running instances with the given options; redis is configured, with
\* REDIS_URL set, for the values TRUE of redisConfigs, and every collection
\* is on the allow-list.
InitOptions(authorizeConfigs, filterConfigs, transformConfigs, redisConfigs, emitIds) ==
  \E b \in redisConfigs :
    InitManagers([authorize : authorizeConfigs, shouldEmit : filterConfigs,
                  transformEvent : transformConfigs, redis : {b},
                  includeCollections : {Collections}],
                 {b}, TRUE, emitIds)

\* The same without a filter and without a transform.
InitWith(authorizeConfigs, redisConfigs) ==
  InitOptions(authorizeConfigs, {NoFilter}, {NoTransform}, redisConfigs, EmitIds)

Tokens == {"none", "bad", "good"}
Lookups == {"throw", "null"} \cup Users

\* A connection is made: the handshake on one of the given instances, with
\* the given tokens and lookup results, then open.
Connect(insts, tokens, docs) ==
  \/ \E r \in Reqs, i \in insts, token \in tokens : Upgrade(r, i, token)
  \/ \E r \in Reqs, doc \in docs : Resume(r, doc)
  \/ \E r \in Reqs : Open(r)

Disconnect == \E c \in Reqs : Close(c)

\* A client sends a join or leave message with one of the given payloads.
BuiltInMessage(datas) ==
  \E c \in Reqs, type \in {"subscribe", "join-collection", "unsubscribe"},
     data \in datas : OnMessage(c, type, data)

OneSlug == {Str(c) : c \in Collections}

\* A client sends a "subscribe" message with one of the given payloads.
Subscribe(datas) == \E c \in Reqs, data \in datas : OnMessage(c, "subscribe", data)

\* The whole system.
Init == InitWith(AuthorizeConfigs, BOOLEAN)

Next ==
  \/ Connect(Insts, Tokens, Lookups)
  \/ \E r \in Reqs : Abort(r)
  \/ Disconnect
  \/ BuiltInMessage(JoinData)
  \/ \E c \in Reqs, r \in CustomRooms : CustomJoin(c, r)
  \/ \E c \in Reqs, r \in Rooms : ApiJoinRoom(c, r)
  \/ \E c \in Reqs, r \in Rooms : ApiLeaveRoom(c, r)
  \/ \E c \in Reqs, r \in Rooms : ApiBroadcastToRoom(c, r)
  \/ \E e \in EmitIds, i \in Insts, ev \in Events : EmitEvent(e, i, ev)
  \/ \E e \in EmitIds, b \in BOOLEAN : EmitResume(e, b)
  \/ \E i \in Insts : HandleRedisMessage(i)

Spec == Init /\ [][Next]_vars

\* The gateway alone: every handshake outcome, aborts, open and close.
InitGateway == InitWith({[defined |-> FALSE, handlers |-> {}]}, {FALSE})

NextGateway ==
  \/ Connect(Insts, Tokens, Lookups)
  \/ \E r \in Reqs : Abort(r)
  \/ Disconnect

SpecGateway == InitGateway /\ [][NextGateway]_vars

\* The room registry: connections made by successful handshakes, built-in
\* joins and leaves, custom joins, the public joinRoom / leaveRoom, and close.
InitRegistry == InitWith({[defined |-> FALSE, handlers |-> {}]}, {FALSE})

RegistryRooms == {CollectionRoom("posts"), <<"room", "alpha">>}

NextRegistry ==
  \/ Connect(Insts, {"good"}, {"u1"})
  \/ Disconnect
  \/ BuiltInMessage(JoinData)
  \/ \E c \in Reqs, r \in RegistryRooms \cap CustomRooms : CustomJoin(c, r)
  \/ \E c \in Reqs, r \in RegistryRooms : ApiJoinRoom(c, r)
  \/ \E c \in Reqs, r \in RegistryRooms : ApiLeaveRoom(c, r)

SpecRegistry == InitRegistry /\ [][NextRegistry]_vars

\* Leave notifications: connections of either user on instance A in custom
\* rooms, close, and the relay of the notifications through both instances.
InitLeave == InitWith({[defined |-> FALSE, handlers |-> {}]}, BOOLEAN)

LeaveRooms == {<<"project", "p1">>, <<"room", "alpha">>}

NextLeave ==
  \/ Connect({"A"}, {"good"}, Users)
  \/ Disconnect
  \/ \E c \in Reqs, r \in LeaveRooms : CustomJoin(c, r)
  \/ \E i \in Insts : HandleRedisMessage(i)

SpecLeave == InitLeave /\ [][NextLeave]_vars

\* The dispatcher: connections made by successful handshakes, built-in
\* joins and leaves, close, emitEvent in every authorization configuration,
\* and the relay.
InitDispatch == InitWith(AuthorizeConfigs, BOOLEAN)

NextDispatch ==
  \/ Connect(Insts, {"good"}, {"u1"})
  \/ Disconnect
  \/ BuiltInMessage(OneSlug)
  \/ \E e \in EmitIds, i \in Insts, ev \in Events : EmitEvent(e, i, ev)
  \/ \E e \in EmitIds, b \in BOOLEAN : EmitResume(e, b)
  \/ \E i \in Insts : HandleRedisMessage(i)

SpecDispatch == InitDispatch /\ [][NextDispatch]_vars

\* Default-deny: an authorization configuration without any predicate;
\* connections and emitEvent calls on instance A, the relay through both
\* instances.
InitDeny == InitWith({[defined |-> TRUE, handlers |-> {}]}, BOOLEAN)

NextDeny ==
  \/ Connect({"A"}, {"good"}, {"u1"})
  \/ Disconnect
  \/ Subscribe(OneSlug)
  \/ \E e \in EmitIds, ev \in Events : EmitEvent(e, "A", ev)
  \/ \E i \in Insts : HandleRedisMessage(i)

SpecDeny == InitDeny /\ [][NextDeny]_vars

\* Ordering: several emitEvent calls issued one after the other on instance
\* A, without authorization or with an asynchronous predicate for the
\* collection, to connections that join and leave the collection room.
InitFifo ==
  InitOptions({[defined |-> FALSE, handlers |-> {}], [defined |-> TRUE, handlers |-> Collections]},
              {NoFilter}, {NoTransform}, {FALSE}, FifoEmitIds)

NextFifo ==
  \/ Connect({"A"}, {"good"}, {"u1"})
  \/ BuiltInMessage(OneSlug)
  \/ \E e \in FifoEmitIds, ev \in Events : EmitEvent(e, "A", ev)
  \/ \E e \in FifoEmitIds, b \in BOOLEAN : EmitResume(e, b)

SpecFifo == InitFifo /\ [][NextFifo]_vars

\* The filter: either a filter that refuses every event, with a transform
\* and a predicate for the collection configured, or a filter that passes
\* every event, without authorization; the relay is connected (what is
\* published stays on the channel), connections of instance A join and leave
\* the collection room and emitEvent is called on A.
InitFilter ==
  \/ InitOptions({[defined |-> TRUE, handlers |-> Collections]},
                 {[defined |-> TRUE, pass |-> {}]},
                 TransformConfigs \ {NoTransform}, {TRUE}, EmitIds)
  \/ InitOptions({[defined |-> FALSE, handlers |-> {}]},
                 {[defined |-> TRUE, pass |-> Events]},
                 {NoTransform}, {TRUE}, EmitIds)

NextFilter ==
  \/ Connect({"A"}, {"good"}, {"u1"})
  \/ Disconnect
  \/ BuiltInMessage(OneSlug)
  \/ \E e \in EmitIds, ev \in Events : EmitEvent(e, "A", ev)

SpecFilter == InitFilter /\ [][NextFilter]_vars

\* The transform: no filter, no transform or one that keeps or changes the
\* collection, without authorization or with a predicate for the event's
\* collection, the relay connected; connections of instance A join the rooms
\* of the collections and emitEvent is called on A.
InitPipeline ==
  InitOptions({[defined |-> FALSE, handlers |-> {}], [defined |-> TRUE, handlers |-> Collections]},
              {NoFilter}, TransformConfigs, {TRUE}, EmitIds)

PipelineSlugs == {Str(c) : c \in TransformCollections}

NextPipeline ==
  \/ Connect({"A"}, {"good"}, {"u1"})
  \/ BuiltInMessage(PipelineSlugs)
  \/ \E e \in EmitIds, ev \in Events : EmitEvent(e, "A", ev)
  \/ \E e \in EmitIds, b \in BOOLEAN : EmitResume(e, b)
  \/ \E i \in Insts : HandleRedisMessage(i)

SpecPipeline == InitPipeline /\ [][NextPipeline]_vars

\* Broadcasts with an excluded connection: connections of instance A in the
\* room "room:alpha", host code that broadcasts to it excluding one of
\* them, with and without the relay.
InitCast == InitWith({[defined |-> FALSE, handlers |-> {}]}, BOOLEAN)

CastRooms == {<<"room", "alpha">>}

NextCast ==
  \/ Connect({"A"}, {"good"}, {"u1"})
  \/ \E c \in Reqs, r \in CastRooms : CustomJoin(c, r)
  \/ \E c \in Reqs, r \in CastRooms : ApiBroadcastToRoom(c, r)
  \/ \E i \in Insts : HandleRedisMessage(i)

SpecCast == InitCast /\ [][NextCast]_vars

\* Failing sends: connections of instance A that subscribe to the collection
\* and close, some of them while an emitEvent call waits for the predicate
\* of their own turn, so that the send that follows fails; emitEvent without
\* authorization or with a predicate for the collection, no relay.
InitIsolate ==
  InitWith({[defined |-> FALSE, handlers |-> {}], [defined |-> TRUE, handlers |-> Collections]},
           {FALSE})

NextIsolate ==
  \/ Connect({"A"}, {"good"}, {"u1"})
  \/ Disconnect
  \/ Subscribe(OneSlug)
  \/ \E e \in EmitIds, ev \in Events : EmitEvent(e, "A", ev)
  \/ \E e \in EmitIds, b \in BOOLEAN : EmitResume(e, b)

SpecIsolate == InitIsolate /\ [][NextIsolate]_vars

\* Joins and leaves on one instance: connections of instance A, a client's
\* join and leave messages for one collection, the public joinRoom and
\* leaveRoom for the collection room and "room:alpha", and close.
NextJoin ==
  \/ Connect({"A"}, {"good"}, {"u1"})
  \/ Disconnect
  \/ BuiltInMessage(OneSlug)
  \/ \E c \in Reqs, r \in RegistryRooms : ApiJoinRoom(c, r)
  \/ \E c \in Reqs, r \in RegistryRooms : ApiLeaveRoom(c, r)

SpecJoin == InitRegistry /\ [][NextJoin]_vars

\* ------------------------------------------------------------------ claims
Members(i, r) == Range(GetSocketsInRoom(rooms[i], r))

\* C1: a registered connection lists room r in its own room set if and only
\* if the member set of room r contains its id.
MembershipSymmetry ==
  \A c \in Reqs : hs[c] = "open" =>
    \A r \in Rooms : (r \in userRooms[c]) <=> (c \in Members(site[c], r))

\* C4: once the transport has aborted a pending handshake, no write is ever
\* made on the request and no connection is registered for it, whatever the
\* identity lookup gives.
AbortSafety ==
  \A r \in Reqs : aborted[r] =>
    /\ writes[r] = <<>>
    /\ hs[r] \in {"pending", "stopped"}
    /\ \A i \in Insts : r \notin sockets[i]

\* C4 witness: an aborted handshake has resumed.
AbortSafetyWitness == \E r \in Reqs : aborted[r] /\ hs[r] = "stopped"

\* C5: after its close event a connection is in no registry: not in the
\* connection table and in the member set of no room.
ClosedFullyRemoved ==
  \A c \in Reqs : hs[c] = "closed" =>
    /\ \A i \in Insts : c \notin sockets[i]
    /\ \A i \in Insts : \A r \in DOMAIN rooms[i] : c \notin Range(rooms[i][r])

\* C6: no room has an empty member set, and a room is gone from the registry
\* in the step in which its last member leaves it or closes.
NoEmptyRoom == \A i \in Insts : \A r \in DOMAIN rooms[i] : rooms[i][r] # <<>>

LastMemberGone ==
  \A c \in Reqs : \A r \in Rooms :
    LET i == site[c]
    IN (/\ hs[c] = "open"
        /\ Members(i, r) = {c}
        /\ \/ hs'[c] = "closed"
           \/ c \notin Range(GetSocketsInRoom(rooms'[i], r)))
       => /\ r \notin DOMAIN rooms'[i]
          /\ GetSocketsInRoom(rooms'[i], r) = <<>>

RoomsNeverEmpty == []NoEmptyRoom /\ [][LastMemberGone]_vars


\* Number of messages with the given label that connection c was sent for
\* emitEvent call e: by emitEvent itself (relayed = {FALSE}), or also by the
\* handling of relayed envelopes (relayed = BOOLEAN).
Received(c, label, e, relayed) ==
  Cardinality({k \in 1..Len(inbox[c]) :
                 /\ inbox[c][k].type = label
                 /\ inbox[c][k].cause.kind = "emit"
                 /\ inbox[c][k].cause.id = e
                 /\ inbox[c][k].cause.relayed \in relayed})

Finished(e) == emits[e].pc \in {"done", "failed"}

\* C2: handling an inbound relay envelope publishes nothing to the shared
\* channel: no envelope is ever published by the inbound path.
InboundNeverPublishes == echoed = 0

\* C3: with an authorization configuration that has no predicate for the
\* event's collection, emitEvent sends no payload:event to anyone and
\* exactly one payload:event:all to every registered connection.
DenyByDefault(e) ==
  /\ options.authorize.defined
  /\ emits[e].event.collection \notin options.authorize.handlers

DefaultDeny ==
  \A e \in EmitIds : (emits[e].pc # "idle" /\ DenyByDefault(e)) =>
    /\ emits[e].pc = "done"
    /\ \A c \in Reqs :
         /\ Received(c, "payload:event", e, {FALSE}) = 0
         /\ Received(c, "payload:event:all", e, {FALSE}) =
              IF c \in emits[e].reg THEN 1 ELSE 0

\* C3 witness: a default-deny emitEvent has run while a registered
\* connection was a member of the target room.
DefaultDenyWitness ==
  \E e \in EmitIds : \E c \in Reqs :
    /\ emits[e].pc = "done"
    /\ DenyByDefault(e)
    /\ hs[c] = "open"
    /\ c \in emits[e].reg
    /\ c \in Members(emits[e].inst, emits[e].room)
    /\ Received(c, "payload:event:all", e, {FALSE}) = 1

\* C7: with a predicate registered for the event's collection, an emitEvent
\* call that has ended has evaluated the predicate exactly once for every
\* member of the target room that is still connected, with that member's
\* identity, has sent payload:event to it exactly when the predicate returned
\* true, and, when the predicate returned false every time, has sent it one
\* payload:event:all.
EvalsFor(e, c) == {k \in 1..Len(emits[e].evals) : emits[e].evals[k][1] = c}

PredicateGatesDelivery ==
  \A e \in EmitIds :
    (/\ Finished(e)
     /\ options.authorize.defined
     /\ emits[e].event.collection \in options.authorize.handlers) =>
      \A c \in Range(emits[e].ids) : c \in emits[e].reg =>
        /\ Cardinality(EvalsFor(e, c)) = 1
        /\ \A k \in EvalsFor(e, c) :
             /\ emits[e].evals[k][2] = user[c]
             /\ Received(c, "payload:event", e, {FALSE}) =
                  IF emits[e].evals[k][3] THEN 1 ELSE 0
        /\ (\A k \in 1..Len(emits[e].evals) : ~emits[e].evals[k][3]) =>
             Received(c, "payload:event:all", e, {FALSE}) = 1

\* C8: with no authorization configured, a connection that is a member of
\* the event's room receives exactly one payload:event and exactly one
\* payload:event:all for an emitEvent call, with or without the relay.
ExactlyOnePerEmit ==
  \A e \in EmitIds : (emits[e].pc = "done" /\ ~options.authorize.defined) =>
    \A c \in Range(emits[e].ids) \cap emits[e].reg :
      /\ Received(c, "payload:event", e, BOOLEAN) = 1
      /\ Received(c, "payload:event:all", e, BOOLEAN) = 1

\* C9: every emitEvent call that has ended has sent payload:event:all to
\* every connection registered when its room-scoped step ended.
GlobalFeedIndependent ==
  \A e \in EmitIds : Finished(e) =>
    \A c \in emits[e].reg : Received(c, "payload:event:all", e, {FALSE}) = 1


\* A close of c1 while c1 and c2 are both in room r of one instance: c1 lists
\* r and is in its member set, c2 is registered and in its member set.
ClosesBeside(c1, c2, r) ==
  /\ c1 # c2
  /\ hs[c1] = "open" /\ hs'[c1] = "closed"
  /\ hs[c2] = "open" /\ site[c2] = site[c1]
  /\ r \in userRooms[c1]
  /\ c1 \in Members(site[c1], r)
  /\ c2 \in Members(site[c1], r)

\* What the close of c1 does then: it sends c2 a user-left notification with
\* one of the given labels carrying c1's identity id, sends c1 nothing, and
\* leaves c1 out of the room's members.
NoticeSent(c1, c2, r, labels) ==
  /\ \E k \in (Len(inbox[c2]) + 1)..Len(inbox'[c2]) :
       /\ inbox'[c2][k].type \in labels
       /\ inbox'[c2][k].data = [userId |-> user[c1]]
       /\ inbox'[c2][k].cause = CloseCause(c1)
  /\ inbox'[c1] = inbox[c1]
  /\ c1 \notin Range(GetSocketsInRoom(rooms'[site[c1]], r))

\* No connection is ever sent a notification of its own close.
NoOwnNotice ==
  \A c \in Reqs : \A k \in 1..Len(inbox[c]) :
    ~(inbox[c][k].cause.kind = "close" /\ inbox[c][k].cause.id = c)

Authenticated(c) ==
  /\ query[c] = "good"
  /\ user[c] \in Users
  /\ writes[c] = <<Upgraded>>
  /\ ~aborted[c]

\* C13: every connection in the connection table of an instance was opened
\* on that instance after an upgrade made for a present, verified token and
\* a found identity; a rejected or aborted handshake is in no table.
OnlyAuthenticatedConnections ==
  /\ \A i \in Insts : \A c \in sockets[i] :
       hs[c] = "open" /\ site[c] = i /\ Authenticated(c)
  /\ \A r \in Reqs : hs[r] \in {"upgraded", "open", "closed"} => Authenticated(r)
  /\ \A r \in Reqs : (hs[r] \in {"rejected", "stopped"} \/ aborted[r]) =>
       \A i \in Insts : r \notin sockets[i]

\* C13 witness: a connection is in the table while a handshake whose lookup
\* found nobody has been rejected.
OnlyAuthenticatedWitness ==
  \E c \in Reqs : \E r \in Reqs :
    /\ \E i \in Insts : c \in sockets[i]
    /\ hs[r] = "rejected"
    /\ query[r] = "good"

\* What is true of a handshake rejected in the upgrade event itself: the one
\* write is the 401 with the given reason, the lookup was never started, the
\* abort observer never ran, and no connection exists for it.
RejectedAtOnce(r, reason) ==
  /\ hs[r] = "rejected"
  /\ writes[r] = <<Reject(reason)>>
  /\ ~aborted[r]
  /\ user[r] = "none"
  /\ \A i \in Insts : r \notin sockets[i]

\* C14: a handshake without a token is rejected at once with "Authentication
\* token required", one whose token fails verification with "Invalid
\* authentication token"; neither reaches the identity lookup or creates a
\* connection.
MissingOrInvalidTokenRejected ==
  \A r \in Reqs :
    /\ query[r] = "none" => RejectedAtOnce(r, "Authentication token required")
    /\ query[r] = "bad" => RejectedAtOnce(r, "Invalid authentication token")

\* C14 witness: one handshake of each kind has been rejected.
MissingOrInvalidTokenWitness ==
  \E r \in Reqs : \E q \in Reqs :
    /\ query[r] = "none" /\ hs[r] = "rejected"
    /\ query[q] = "bad" /\ hs[q] = "rejected"

\* C15: a handshake whose token verified and that was rejected (its lookup
\* found no identity, by returning nothing or by failing) was rejected with
\* "User not found", and no connection exists for it.
IdentityNotFoundRejected ==
  \A r \in Reqs : (query[r] = "good" /\ hs[r] = "rejected") =>
    /\ writes[r] = <<Reject("User not found")>>
    /\ \A i \in Insts : r \notin sockets[i]

\* C11: emitEvent calls are numbered in the order they are issued; when a
\* connection has been sent payload:event by two calls of one instance, the
\* message of the call issued first comes first in what it was sent.
FifoPerInstance ==
  \A c \in Reqs : \A k1 \in 1..Len(inbox[c]) : \A k2 \in 1..Len(inbox[c]) :
    LET m1 == inbox[c][k1]
        m2 == inbox[c][k2]
    IN (/\ m1.type = "payload:event" /\ m2.type = "payload:event"
        /\ m1.cause.kind = "emit" /\ m2.cause.kind = "emit"
        /\ ~m1.cause.relayed /\ ~m2.cause.relayed
        /\ emits[m1.cause.id].inst = emits[m2.cause.id].inst
        /\ m1.cause.id < m2.cause.id)
       => k1 < k2

\* C12: with the relay active, the emitEvent call that ends puts exactly one
\* envelope on the channel and no other step of the call publishes, in every
\* authorization configuration; a connection of another instance is sent
\* payload:event for the call at most once.
OneEnvelopePerEmit ==
  /\ [][\A e \in EmitIds : emits'[e] # emits[e] =>
         published' - published =
           IF emits'[e].pc = "done" /\ pubClient[emits'[e].inst] THEN 1 ELSE 0]_vars
  /\ [](\A e \in EmitIds : \A c \in Reqs :
         (emits[e].pc # "idle" /\ site[c] # emits[e].inst) =>
           Received(c, "payload:event", e, BOOLEAN) <= 1)

\* The messages sent and the envelopes waiting that emitEvent call e caused,
\* directly or through the relay.
SentFor(e) ==
  UNION {{inbox[c][k] : k \in {j \in 1..Len(inbox[c]) :
                                 /\ inbox[c][j].cause.kind = "emit"
                                 /\ inbox[c][j].cause.id = e}} : c \in Reqs}

EnvelopesFor(e) ==
  UNION {{chan[i][k] : k \in {j \in 1..Len(chan[i]) :
                                /\ chan[i][j].cause.kind = "emit"
                                /\ chan[i][j].cause.id = e}} : i \in Insts}

Refused(e) ==
  /\ emits[e].pc # "idle"
  /\ options.shouldEmit.defined
  /\ emits[e].event \notin options.shouldEmit.pass

\* C16: an emitEvent call whose event the filter refuses ends at once: it
\* sends no message, publishes no envelope, does not apply the transform and
\* evaluates no predicate, and the step changes nothing but the call.
FilteredEmitDoesNothing ==
  /\ [](\A e \in EmitIds : Refused(e) =>
         /\ emits[e].pc = "filtered"
         /\ emits[e].finalEvent = NoEvent
         /\ emits[e].evals = <<>>
         /\ SentFor(e) = {}
         /\ EnvelopesFor(e) = {})
  /\ [][\A e \in EmitIds : (emits[e].pc = "idle" /\ emits'[e].pc = "filtered") =>
         /\ inbox' = inbox
         /\ chan' = chan
         /\ published' = published
         /\ rooms' = rooms]_vars

\* C16 witness: a refused call was made on an instance where a registered
\* connection is a member of the event's room, with a transform configured
\* and a predicate for the collection.
FilteredEmitWitness ==
  \E e \in EmitIds : \E c \in Reqs :
    /\ Refused(e)
    /\ emits[e].pc = "filtered"
    /\ c \in sockets[emits[e].inst]
    /\ c \in Members(emits[e].inst, CollectionRoom(emits[e].event.collection))
    /\ options.transformEvent.defined
    /\ options.authorize.defined

\* C17: every step of an emitEvent call after the transform uses the
\* transformed event: the room is that of its collection, a predicate is
\* evaluated only if there is one for its collection, and it is what every
\* message and every envelope carries.
TransformedEventUsed ==
  \A e \in EmitIds : emits[e].pc \notin {"idle", "filtered"} =>
    LET finalEvent == TransformEvent(options.transformEvent, emits[e].event)
    IN /\ emits[e].room = CollectionRoom(finalEvent.collection)
       /\ emits[e].evals # <<>> => finalEvent.collection \in options.authorize.handlers
       /\ \A m \in SentFor(e) : m.data = finalEvent
       /\ \A env \in EnvelopesFor(e) :
            env.event = finalEvent /\ env.room = CollectionRoom(finalEvent.collection)

\* A step that is a broadcast to room r excluding c: some connection is sent
\* the message of that broadcast.
CastStep(c, r) ==
  \E d \in Reqs :
    inbox'[d] = Append(inbox[d], Message("chat", ChatData, CastCause(c, r)))

\* C18: a broadcast to a room with an excluded connection sends the data to
\* every other registered member of the room, and the excluded connection
\* is never sent a message of that broadcast, by the call or by the relay.
ExcludedNeverReceives ==
  /\ [][\A c \in Reqs : \A r \in Rooms : CastStep(c, r) =>
         \A d \in Members(site[c], r) \ {c} :
           d \in sockets[site[c]] =>
             inbox'[d] = Append(inbox[d], Message("chat", ChatData, CastCause(c, r)))]_vars
  /\ [](\A c \in Reqs : \A k \in 1..Len(inbox[c]) :
         ~(inbox[c][k].cause.kind = "broadcast" /\ inbox[c][k].cause.id = c))

\* The send of emitEvent call e to the member evaluated at position k failed:
\* the predicate returned true and the member was sent nothing.
SendFailed(e, k) ==
  /\ emits[e].evals[k][3]
  /\ Received(emits[e].evals[k][1], "payload:event", e, {FALSE}) = 0

\* C19: a send that fails is not raised and stops nothing.  In an emitEvent
\* call the members are evaluated in order without a gap, whatever sends
\* failed before; a member whose predicate returned true and that is still
\* connected was sent payload:event once; the call is rejected only by the
\* lookup of a member that left the table, never by a send; a call that
\* ends has sent payload:event:all once to every registered connection, and
\* without authorization payload:event once to every registered member.
\* Nothing that was sent is taken back.
SendFailureIsolated ==
  /\ [](\A e \in EmitIds : emits[e].pc \in {"await", "done", "failed"} =>
         /\ \A k \in 1..Len(emits[e].evals) :
              /\ emits[e].evals[k][1] = emits[e].ids[k]
              /\ (emits[e].evals[k][3] /\ hs[emits[e].ids[k]] = "open")
                   => Received(emits[e].ids[k], "payload:event", e, {FALSE}) = 1
         /\ \A c \in Reqs : Received(c, "payload:event", e, {FALSE}) <= 1
         /\ emits[e].pc = "await" => Len(emits[e].evals) = emits[e].idx - 1
         /\ emits[e].pc = "failed" =>
              /\ Len(emits[e].evals) = emits[e].idx - 1
              /\ hs[emits[e].ids[emits[e].idx]] = "closed"
         /\ emits[e].pc = "done" =>
              /\ options.authorize.defined => Len(emits[e].evals) = Len(emits[e].ids)
              /\ \A c \in emits[e].reg :
                   Received(c, "payload:event:all", e, {FALSE}) = 1
              /\ ~options.authorize.defined =>
                   \A c \in Range(emits[e].ids) \cap emits[e].reg :
                     Received(c, "payload:event", e, {FALSE}) = 1)
  /\ [][\A c \in Reqs :
         /\ Len(inbox'[c]) >= Len(inbox[c])
         /\ SubSeq(inbox'[c], 1, Len(inbox[c])) = inbox[c]]_vars

\* C19 witness: in a call that ended, the send to one member failed and a
\* member evaluated after it was sent payload:event and payload:event:all.
SendFailureWitness ==
  \E e \in EmitIds : \E k1 \in 1..Len(emits[e].evals) : \E k2 \in 1..Len(emits[e].evals) :
    /\ emits[e].pc = "done"
    /\ k1 < k2
    /\ SendFailed(e, k1)
    /\ hs[emits[e].ids[k1]] = "closed"
    /\ emits[e].evals[k2][3]
    /\ Received(emits[e].ids[k2], "payload:event", e, {FALSE}) = 1
    /\ Received(emits[e].ids[k2], "payload:event:all", e, {FALSE}) = 1

\* How many times id c is among the members s
Count(s, c) == Cardinality({k \in 1..Len(s) : s[k] = c})

\* C20: on every registry the program reaches, for every connection and
\* room: joining twice gives what joining once gives, with the connection
\* counted once, and joining a room it is in changes nothing; leaving twice
\* gives what leaving once gives, and leaving a room it is not in, or that
\* does not exist, changes nothing.  The same holds for a client's
\* subscribe and unsubscribe messages sent twice.
JoinLeaveIdempotent ==
  \A i \in Insts : \A c \in Reqs : \A r \in Rooms :
    LET rm == rooms[i]
        joined == JoinRoom(rm, c, r)
        left == LeaveRoom(rm, c, r)
        st == [rooms |-> rm, userRooms |-> userRooms[c]]
    IN /\ JoinRoom(joined, c, r) = joined
       /\ Count(joined[r], c) = 1
       /\ c \in Range(GetSocketsInRoom(rm, r)) => joined = rm
       /\ LeaveRoom(left, c, r) = left
       /\ c \notin Range(GetSocketsInRoom(left, r))
       /\ c \notin Range(GetSocketsInRoom(rm, r)) => left = rm
       /\ \A type \in {"subscribe", "unsubscribe"} : \A data \in JoinData :
            HandleMessage(HandleMessage(st, c, type, data), c, type, data)
              = HandleMessage(st, c, type, data)

\* C20 witness: a room has two members, one of them put there by the public
\* joinRoom, while another room does not exist.
JoinLeaveWitness ==
  \E i \in Insts : \E r \in Rooms : \E q \in Rooms : \E c \in Reqs : \E d \in Reqs :
    /\ c # d
    /\ {c, d} \subseteq Members(i, r)
    /\ r \notin userRooms[c]
    /\ q \notin DOMAIN rooms[i]

\* C28: with authorization configured, every payload:event a connection is
\* sent for an emitEvent call, by the call itself or by the handling of a
\* relayed envelope, follows an evaluation of the predicate for that
\* connection that returned true.
AuthorizationGatesRelayed ==
  \A c \in Reqs : \A k \in 1..Len(inbox[c]) :
    (/\ inbox[c][k].type = "payload:event"
     /\ inbox[c][k].cause.kind = "emit"
     /\ options.authorize.defined) =>
       \E n \in EvalsFor(inbox[c][k].cause.id, c) : emits[inbox[c][k].cause.id].evals[n][3]

\* C29: whenever emitEvent resumes with a predicate result of true and so
\* calls sendToSocket for the member it was evaluating, that member's
\* connection is still open.
NoSendAfterClose ==
  [][\A e \in EmitIds : \A b \in BOOLEAN :
       (EmitResume(e, b) /\ b) => hs[emits[e].ids[emits[e].idx]] = "open"]_vars

\* C30: a step in which emitEvent itself sends payload:event to a
\* connection starts in a state where that connection is a member of the
\* event's room.
DeliveredOnlyToCurrentMembers ==
  [][\A e \in EmitIds : \A c \in Reqs :
       Received(c, "payload:event", e, {FALSE})' > Received(c, "payload:event", e, {FALSE})
         => c \in Members(emits'[e].inst, emits'[e].room)]_vars

\* Reserved labels: connections of instance A, host code registering a
\* handler that replies under the labels "subscribe" and "unsubscribe", and
\* the join and leave frames of a client, with a slug or without data.
InitHandlers == InitWith({[defined |-> FALSE, handlers |-> {}]}, {FALSE})

ReservedFrames ==
  {Typed(type, data) : type \in Reserved, data \in OneSlug \cup {Undefined}}

NextHandlers ==
  \/ Connect({"A"}, {"good"}, {"u1"})
  \/ \E eventName \in {"subscribe", "unsubscribe"} : On("A", eventName, "reply")
  \/ \E c \in Reqs, frame \in ReservedFrames : OnFrame(c, frame)

SpecHandlers == InitHandlers /\ [][NextHandlers]_vars

\* Ignored frames: connections of instance A, host code registering under
\* "chat" a handler that throws, and frames that are no JSON, null, without
\* a type, or carry the label "chat", "leave-collection" or "subscribe".
IgnoredFrames ==
  {Garbage, Null, Untyped}
  \cup {Typed(type, data) : type \in {"chat", "leave-collection", "subscribe"},
                            data \in OneSlug}

NextIgnore ==
  \/ Connect({"A"}, {"good"}, {"u1"})
  \/ On("A", "chat", "throw")
  \/ \E c \in Reqs, frame \in IgnoredFrames : OnFrame(c, frame)

SpecIgnore == InitHandlers /\ [][NextIgnore]_vars

\* C21: a frame with a reserved label is resolved by the built-in logic
\* whatever handlers are registered: the room registry and the connection's
\* room set become what handleJoinCollection / handleUnsubscribe make of
\* them, nothing is sent, and no handler is called; and registering a
\* handler changes no registry.
ReservedNeverOverridden ==
  /\ [][\A c \in Reqs : \A frame \in ReservedFrames :
          (OnFrame(c, frame) /\ frame.kind = "typed" /\ frame.type \in Reserved) =>
            LET reg == HandleMessage([rooms |-> rooms[site[c]], userRooms |-> userRooms[c]],
                                     c, frame.type, frame.data)
            IN /\ last'.outcome = "built-in"
               /\ rooms' = [rooms EXCEPT ![site[c]] = reg.rooms]
               /\ userRooms' = [userRooms EXCEPT ![c] = reg.userRooms]
               /\ inbox' = inbox]_vars
  /\ [][customHandlers' # customHandlers =>
          rooms' = rooms /\ userRooms' = userRooms /\ sockets' = sockets]_vars

\* C21 witness: a handler is registered under "subscribe", and the last
\* frame, a "subscribe" for a collection, was resolved by the built-in
\* logic and made its connection a member of the collection's room.
ReservedWitness ==
  /\ "subscribe" \in DOMAIN customHandlers["A"]
  /\ last.frame.type = "subscribe"
  /\ last.frame.data \in OneSlug
  /\ last.outcome = "built-in"
  /\ last.conn \in Members("A", CollectionRoom(last.frame.data.v))

\* The frames of connection c the claim C22 is about: a frame that is no
\* JSON object with a type, a label that is neither reserved nor registered,
\* and a label whose handler throws.
Ignored(c, frame) ==
  \/ frame.kind \in {"garbage", "null", "untyped"}
  \/ /\ frame.kind = "typed"
     /\ frame.type \notin Reserved
     /\ frame.type \in DOMAIN customHandlers[site[c]] =>
          customHandlers[site[c]][frame.type] = "throw"

\* C22: the handling of such a frame changes no connection table, no room
\* registry, no room set and no handler table, sends nothing and leaves
\* every connection as it is; and after one, the connection that sent the
\* last frame is open and registered, and a "subscribe" it sent was resolved
\* by the built-in logic and made it a member.
IgnoredFrameChangesNothing ==
  /\ [][\A c \in Reqs : \A frame \in IgnoredFrames :
          (OnFrame(c, frame) /\ Ignored(c, frame)) =>
            /\ last'.outcome \in IgnoredOutcomes
            /\ sockets' = sockets
            /\ rooms' = rooms
            /\ userRooms' = userRooms
            /\ customHandlers' = customHandlers
            /\ inbox' = inbox
            /\ hs' = hs]_vars
  /\ [](last.after =>
          /\ hs[last.conn] = "open"
          /\ last.conn \in sockets[site[last.conn]]
          /\ (last.frame.kind = "typed" /\ last.frame.type = "subscribe") =>
               /\ last.outcome = "built-in"
               /\ last.conn \in Members(site[last.conn], CollectionRoom(last.frame.data.v)))

\* C22 witness: a frame was ignored, two connections are registered, and
\* the last frame, a later "subscribe", put its connection in the
\* collection's room.
IgnoredFrameWitness ==
  /\ last.after
  /\ last.outcome = "built-in"
  /\ last.frame.type = "subscribe"
  /\ last.frame.data \in OneSlug
  /\ last.conn \in Members("A", CollectionRoom(last.frame.data.v))
  /\ Cardinality(sockets["A"]) = 2

\* C25: after a "leave-collection" frame for a collection whose room the
\* connection is in, the connection is not a member of that room.
LeaveCollectionUnsubscribes ==
  [][\A c \in Reqs : \A coll \in Collections :
       (/\ OnFrame(c, Typed("leave-collection", Str(coll)))
        /\ c \in Members(site[c], CollectionRoom(coll)))
         => c \notin Members(site[c], CollectionRoom(coll))']_vars

\* Start-up: the managers as the plugin constructs them, with or without
\* redis in the options and REDIS_URL in the environment; every process
\* calls initUWebSocket, host code may call init(); then connections,
\* subscriptions, emitEvent calls on instance A, and the relay.
InitStart ==
  InitManagers([authorize : {[defined |-> FALSE, handlers |-> {}]}, shouldEmit : {NoFilter},
                transformEvent : {NoTransform}, redis : BOOLEAN,
                includeCollections : {Collections}],
               BOOLEAN, FALSE, EmitIds)

NextStart ==
  \/ \E i \in Insts : InitUWebSocket(i)
  \/ \E i \in Insts : ManagerInit(i)
  \/ Connect(Insts, {"good"}, {"u1"})
  \/ Subscribe(OneSlug)
  \/ \E e \in EmitIds, ev \in Events : EmitEvent(e, "A", ev)
  \/ \E i \in Insts : HandleRedisMessage(i)

SpecStart == InitStart /\ [][NextStart]_vars

\* C23: on an instance whose app listens, with redis in the plugin options
\* and the broker URL set, the relay is connected, so that what the instance
\* emits is published.
RelayActiveWhenStarted ==
  \A i \in Insts :
    (app[i] = "listening" /\ options.redis /\ processEnv.REDIS_URL) => pubClient[i]

\* Relay degradation: connections of instance A that subscribe to the
\* collection, emitEvent without authorization, broadcasts to the
\* collection's room that exclude the first connection, with no relay
\* client, or with one and a broker that stops answering and recovers.
InitDegrade == InitWith({[defined |-> FALSE, handlers |-> {}]}, BOOLEAN)

NextDegrade ==
  \/ Connect({"A"}, {"good"}, {"u1"})
  \/ Subscribe(OneSlug)
  \/ \E e \in EmitIds, ev \in Events : EmitEvent(e, "A", ev)
  \/ \E coll \in Collections : ApiBroadcastToRoom(1, CollectionRoom(coll))
  \/ BrokerDown
  \/ BrokerUp

SpecDegrade == InitDegrade /\ [][NextDegrade]_vars

\* C24: whether there is a relay client or not, and whether the broker
\* answers or not, a broadcast sends its message to every registered member
\* of the room but the excluded one and to nobody else, and an emitEvent
\* call without authorization has ended without an error, having sent
\* payload:event:all once to every registered connection and payload:event
\* once to every member.
DegradedRelayDeliversLocally ==
  /\ [][\A c \in Reqs : \A coll \in Collections :
          ApiBroadcastToRoom(c, CollectionRoom(coll)) =>
            \A d \in Reqs :
              inbox'[d] =
                IF d \in (Members(site[c], CollectionRoom(coll)) \cap sockets[site[c]]) \ {c}
                THEN Append(inbox[d], Message("chat", ChatData,
                                              CastCause(c, CollectionRoom(coll))))
                ELSE inbox[d]]_vars
  /\ [](\A e \in EmitIds : emits[e].pc # "idle" =>
          /\ emits[e].pc = "done"
          /\ \A c \in Reqs :
               /\ Received(c, "payload:event:all", e, {FALSE}) =
                    IF c \in emits[e].reg THEN 1 ELSE 0
               /\ Received(c, "payload:event", e, {FALSE}) =
                    IF c \in Range(emits[e].ids) THEN 1 ELSE 0)

\* C24 witness: the instance has a relay client and nothing was ever
\* published, yet an emitEvent call without authorization has ended and its
\* member was sent payload:event and payload:event:all, and a connection was
\* sent the message of a broadcast.
DegradedRelayWitness ==
  /\ pubClient["A"]
  /\ published = 0
  /\ ~options.authorize.defined
  /\ \E e \in EmitIds : \E c \in Reqs :
       /\ emits[e].pc = "done"
       /\ c \in Range(emits[e].ids)
       /\ Received(c, "payload:event", e, {FALSE}) = 1
       /\ Received(c, "payload:event:all", e, {FALSE}) = 1
  /\ \E d \in Reqs : \E k \in 1..Len(inbox[d]) : inbox[d][k].type = "chat"

\* The hooks: the plugin configured with an empty allow-list or with
\* "posts" on it, connections of instance A that subscribe to "posts", and
\* the host creating, updating and deleting documents of "posts" and of
\* "pages".
InitHooks ==
  InitManagers([authorize : {[defined |-> FALSE, handlers |-> {}]}, shouldEmit : {NoFilter},
                transformEvent : {NoTransform}, redis : {FALSE},
                includeCollections : {{}, {"posts"}}],
               {FALSE}, TRUE, EmitIds)

NextHooks ==
  \/ Connect({"A"}, {"good"}, {"u1"})
  \/ Subscribe(OneSlug)
  \/ \E coll \in HookCollections, op \in Operations : DocOperation("A", coll, op)

SpecHooks == InitHooks /\ [][NextHooks]_vars

\* The emitEvent calls that begin in a step
Called == {e \in EmitIds : emits[e].pc = "idle" /\ emits'[e].pc # "idle"}

\* What the hooks do after an operation of one of the given kinds on a
\* collection: on the allow-list, one emitEvent call with the kind, the
\* collection and the document of the operation; otherwise none.
HooksCall(i, coll, op, kinds) ==
  IF coll \in options.includeCollections /\ op \in kinds
  THEN /\ Cardinality(Called) = 1
       /\ \A e \in Called :
            /\ emits'[e].inst = i
            /\ emits'[e].event = [type |-> op, collection |-> coll, id |-> DocId]
  ELSE Called = {} /\ emits' = emits /\ inbox' = inbox

\* C26 as stated: after every create, update and delete on an allow-listed
\* collection the hooks call emitEvent once with the matching kind, and
\* never for another collection or with an empty allow-list.
HooksEmitAfterEveryOperation ==
  [][\A coll \in HookCollections : \A op \in Operations :
       DocOperation("A", coll, op) => HooksCall("A", coll, op, Operations)]_vars

\* C26 amended: after every update and every delete on an allow-listed
\* collection the hooks call emitEvent once with the matching kind; after a
\* create, for another collection, or with an empty allow-list, never.
HooksEmitAfterUpdateAndDelete ==
  [][\A coll \in HookCollections : \A op \in Operations :
       DocOperation("A", coll, op) => HooksCall("A", coll, op, {"update", "delete"})]_vars

\* C26 witness: the last operation was a delete on the allow-listed
\* collection, the hook called emitEvent, and a subscriber was sent the
\* "delete" event.
HooksWitness ==
  /\ lastOp = [op |-> "delete", collection |-> "posts", calls |-> 1]
  /\ \E e \in EmitIds : \E c \in Reqs :
       /\ emits[e].pc = "done"
       /\ emits[e].event.type = "delete"
       /\ c \in Range(emits[e].ids)
       /\ Received(c, "payload:event", e, {FALSE}) = 1

\* Close tasks: connections of instance A, of either identity, that join
\* "project:p1" and "room:alpha" through a custom handler and close, with a
\* relay client and a broker that stops answering and recovers.
InitClose == InitWith({[defined |-> FALSE, handlers |-> {}]}, {TRUE})

CloseTaskRooms == {<<"project", "p1">>, <<"room", "alpha">>}

NextClose ==
  \/ Connect({"A"}, {"good"}, {"u1", "u2"})
  \/ \E c \in Reqs, r \in CloseTaskRooms : CustomJoin(c, r)
  \/ Disconnect
  \/ BrokerDown
  \/ BrokerUp

SpecClose == InitClose /\ [][NextClose]_vars

\* The positions of the steps of one kind for one room in a close log
StepsOf(log, step, room) ==
  {k \in 1..Len(log) : log[k].step = step /\ log[k].room = room}

\* C27: a close is one step.  Its log shows, for each room of the closing
\* connection's room set, one removal, preceded for a "project:" or "actor:"
\* room by one notification made while the connection was still a member,
\* and the removal from the table as the last step, when the connection is
\* in no room any more.  After it the connection is in no room of its room
\* set and not in the table, and the other registered members of a
\* notified room were sent the notification, whether the broker answered
\* the publish or not.
CloseCleanupBestEffort ==
  /\ [](\A c \in Reqs : hs[c] = "closed" =>
          LET log == closeLog[c]
          IN /\ c \notin sockets[site[c]]
             /\ \A room \in userRooms[c] : c \notin Members(site[c], room)
             /\ log # <<>>
             /\ log[Len(log)].step = "delete"
             /\ ~log[Len(log)].member
             /\ \A k \in 1..(Len(log) - 1) :
                  log[k].step \in {"notify", "leave"} /\ log[k].room \in userRooms[c]
             /\ \A room \in userRooms[c] :
                  /\ Cardinality(StepsOf(log, "leave", room)) = 1
                  /\ IF StartsWith(room, "project") \/ StartsWith(room, "actor")
                     THEN /\ Cardinality(StepsOf(log, "notify", room)) = 1
                          /\ \A n \in StepsOf(log, "notify", room) :
                               /\ log[n].member
                               /\ n + 1 \in StepsOf(log, "leave", room)
                     ELSE StepsOf(log, "notify", room) = {})
  /\ [][\A c \in Reqs : Close(c) =>
          \A d \in Reqs :
            inbox'[d] =
              IF /\ <<"project", "p1">> \in userRooms[c]
                 /\ d \in (Members(site[c], <<"project", "p1">>) \cap sockets[site[c]]) \ {c}
              THEN Append(inbox[d], Message("project:user-left", [userId |-> user[c]],
                                            CloseCause(c)))
              ELSE inbox[d]]_vars

\* C27 witness: a connection that was in both rooms has closed while the
\* broker rejected the publish (there is a relay client and nothing was ever
\* published), and the other member of "project:p1" was sent the
\* notification.
CloseCleanupWitness ==
  \E c \in Reqs : \E d \in Reqs :
    /\ hs[c] = "closed"
    /\ userRooms[c] = CloseTaskRooms
    /\ Len(closeLog[c]) = 4
    /\ pubClient["A"]
    /\ published = 0
    /\ hs[d] = "open"
    /\ \E k \in 1..Len(inbox[d]) :
         inbox[d][k].type = "project:user-left" /\ inbox[d][k].cause = CloseCause(c)

\* C31: every handshake has one outcome.  A request is written to at most
\* once; a request that was rejected carries one 401 and never becomes a
\* connection; a request that was upgraded carries the one upgrade and no
\* rejection; a request that was aborted while the lookup was pending, or
\* that has not resumed yet, carries nothing; and what was written to a
\* request never changes afterwards.
OneOutcomePerHandshake ==
  /\ [](\A r \in Reqs :
          /\ Len(writes[r]) <= 1
          /\ hs[r] \in {"new", "pending", "stopped"} => writes[r] = <<>>
          /\ aborted[r] => writes[r] = <<>>
          /\ hs[r] = "rejected" =>
               /\ Len(writes[r]) = 1
               /\ writes[r][1].status = "401 Unauthorized"
               /\ \A i \in Insts : r \notin sockets[i]
          /\ hs[r] \in {"upgraded", "open", "closed"} => writes[r] = <<Upgraded>>)
  /\ [][\A r \in Reqs :
          /\ writes[r] # <<>> => writes'[r] = writes[r]
          /\ hs[r] \in {"rejected", "stopped"} => hs'[r] = hs[r]]_vars

\* C31 witness: of two handshakes, one was rejected when its lookup found no
\* document and carries one rejection, the other was upgraded, has opened,
\* and carries one upgrade.
OneOutcomeWitness ==
  \E r \in Reqs : \E q \in Reqs :
    /\ hs[r] = "rejected"
    /\ writes[r] = <<Reject("User not found")>>
    /\ hs[q] = "open"
    /\ writes[q] = <<Upgraded>>

\* The envelopes in flight: published to the channel and not yet handed to
\* handleRedisMessage by the subClient of the instances in S.
RECURSIVE InFlight(_, _)
InFlight(ch, S) ==
  IF S = {} THEN 0
  ELSE LET i == CHOOSE x \in S : TRUE
       IN Len(ch[i]) + InFlight(ch, S \ {i})

\* C32: relay quiescence.  Every envelope an instance handles brings the
\* channel nearer to empty: handling one leaves fewer envelopes in flight
\* than there were, so the envelopes published after finitely many emitEvent
\* and broadcastToRoom calls are finitely many and the channel drains.
RelayDrains ==
  [][(\E i \in Insts : HandleRedisMessage(i)) =>
       InFlight(chan', Insts) < InFlight(chan, Insts)]_vars

====
